---------------------------- MODULE Spec2Model ----------------------------
(***************************************************************************)
(* A model of src/Assignment.py: a lexer, a recursive-descent parser and a *)
(* tree-walking interpreter for lines of the form  name = expr;  run by an *)
(* interactive loop that keeps one class-level dictionary of variables.    *)
(*                                                                         *)
(* A text is a sequence of one-character strings.  Lexer positions are the *)
(* 0-based indices of the source (self.pos); text[pos + 1] is the          *)
(* character under the cursor.                                             *)
(***************************************************************************)
EXTENDS Integers, Sequences, FiniteSets, TLC

VARIABLES
    pc,         \* where main() (Spec) or the front end (SpecFront) stands
    text,       \* the line being processed (main's local `text`)
    variables,  \* Interpreter.VARIABLES: a dict, kept in insertion order
    tree,       \* what Parser.parse() returned for the line
    raised,     \* the exception the line raised, "none" when it raised none
    result,     \* what interpret() returned for the line
    printed,    \* what main() printed last
    lexpos,     \* Lexer.pos of a lexer driven token by token (SpecFront)
    tokens      \* the tokens that lexer has returned so far (SpecFront)

vars == <<pc, text, variables, tree, raised, result, printed, lexpos, tokens>>

-----------------------------------------------------------------------------
(* Bounds of the model. *)

\* Largest absolute value a line read by the session may compute.
MaxVal == 14
\* Longest text, in characters, of the exhaustive lexer inputs.
MaxLexLen == 4
\* Longest right-hand part, in characters, of the exhaustive parser inputs.
MaxBody == 4
\* Most minus signs before an operand of the generated expressions.
MaxSigns == 2

-----------------------------------------------------------------------------
(* Python values and exceptions. *)

\* Python's None and Python ints as distinguishable values.
None == [type |-> "NoneType"]
PyInt(n) == [type |-> "int", value |-> n]

\* self.current_char once the cursor has left the text (None in the source).
NoneChar == "None"

\* The exceptions a line can raise, by what the source raises.
LexError == "Error"
SyntaxError == "Invalid syntax"
NameError == "NameError"
TypeError == "TypeError"
NoError == "none"

-----------------------------------------------------------------------------
(* Character classes: str.isspace, str.isalpha, str.isdigit, str.isalnum   *)
(* restricted to the characters the model's inputs are made of.            *)

SpaceChars == {" "}
AlphaChars == {"x", "y", "z"}
DigitChars == {"0", "1", "2", "3", "4", "5", "6", "7", "8", "9"}
NonZeroDigitChars == DigitChars \ {"0"}

isspace(c) == c \in SpaceChars
isalpha(c) == c \in AlphaChars
isdigit(c) == c \in DigitChars
isalnum(c) == isalpha(c) \/ isdigit(c)

DigitValue(c) ==
    CASE c = "0" -> 0 [] c = "1" -> 1 [] c = "2" -> 2 [] c = "3" -> 3
      [] c = "4" -> 4 [] c = "5" -> 5 [] c = "6" -> 6 [] c = "7" -> 7
      [] c = "8" -> 8 [] c = "9" -> 9

-----------------------------------------------------------------------------
(* Token types.  The source names each type by a string; `in` between two  *)
(* strings is substring containment, so the names are kept as characters.  *)

INTEGER == "INTEGER"
PLUS == "PLUS"
MINUS == "MINUS"
MUL == "MUL"
DIV == "DIV"
DOT == "DOT"
OPEN_BRACE == "("
CLOSE_BRACE == ")"
ID == "ID"
ASSIGN == "ASSIGN"
SEMI == "SEMI"
EOF == "EOF"

TokenTypes ==
    {INTEGER, PLUS, MINUS, MUL, DIV, DOT, OPEN_BRACE, CLOSE_BRACE, ID,
     ASSIGN, SEMI, EOF}

TypeChars(t) ==
    CASE t = INTEGER -> <<"I", "N", "T", "E", "G", "E", "R">>
      [] t = PLUS -> <<"P", "L", "U", "S">>
      [] t = MINUS -> <<"M", "I", "N", "U", "S">>
      [] t = MUL -> <<"M", "U", "L">>
      [] t = DIV -> <<"D", "I", "V">>
      [] t = DOT -> <<"D", "O", "T">>
      [] t = OPEN_BRACE -> <<"(">>
      [] t = CLOSE_BRACE -> <<")">>
      [] t = ID -> <<"I", "D">>
      [] t = ASSIGN -> <<"A", "S", "S", "I", "G", "N">>
      [] t = SEMI -> <<"S", "E", "M", "I">>
      [] t = EOF -> <<"E", "O", "F">>

\* Python's `a in b` for two strings: a occurs in b as a substring.
StrIn(a, b) ==
    \E i \in 0..(Len(b) - Len(a)) : SubSeq(b, i + 1, i + Len(a)) = a

\* The token types t for which `t in ASSIGN` and `t in (MUL)` hold.
InASSIGN == {t \in TokenTypes : StrIn(TypeChars(t), TypeChars(ASSIGN))}
InMUL == {t \in TokenTypes : StrIn(TypeChars(t), TypeChars(MUL))}

Token(type, value) == [type |-> type, value |-> value]

-----------------------------------------------------------------------------
(* Lexer *)

current_char(txt, pos) ==
    IF pos > Len(txt) - 1 THEN NoneChar ELSE txt[pos + 1]

advance(pos) == pos + 1

RECURSIVE skip_whitespace(_, _)
skip_whitespace(txt, pos) ==
    IF current_char(txt, pos) # NoneChar /\ isspace(current_char(txt, pos))
    THEN skip_whitespace(txt, advance(pos))
    ELSE pos

\* The cursor after the loop of integer(): past the maximal run of digits.
RECURSIVE DigitRunEnd(_, _)
DigitRunEnd(txt, pos) ==
    IF current_char(txt, pos) # NoneChar /\ isdigit(current_char(txt, pos))
    THEN DigitRunEnd(txt, advance(pos))
    ELSE pos

\* literal_fullmatch with match() in place of fullmatch(): a prefix matches.
literal_match(s) == Len(s) >= 1 /\ s[1] \in DigitChars

\* re.compile(r'(0){1}|([1-9])\d*').fullmatch(s) is not None
literal_fullmatch(s) ==
    \/ s = <<"0">>
    \/ /\ Len(s) >= 1
       /\ s[1] \in NonZeroDigitChars
       /\ \A i \in 2..Len(s) : s[i] \in DigitChars

\* int(s) for a string of decimal digits
RECURSIVE int(_)
int(s) ==
    IF Len(s) = 0 THEN 0
    ELSE 10 * int(SubSeq(s, 1, Len(s) - 1)) + DigitValue(s[Len(s)])

integer(txt, pos) ==
    LET end == DigitRunEnd(txt, pos)
        run == SubSeq(txt, pos + 1, end)
    IN  IF literal_fullmatch(run)
        THEN [pos |-> end, value |-> int(run), raised |-> NoError]
        ELSE [pos |-> end, value |-> 0, raised |-> LexError]

\* The cursor after the loop of _id(): the condition is
\* (current_char is not None and isalnum) or current_char == '_'.
RECURSIVE IdEnd(_, _)
IdEnd(txt, pos) ==
    IF \/ /\ current_char(txt, pos) # NoneChar
          /\ isalnum(current_char(txt, pos))
       \/ current_char(txt, pos) = "_"
    THEN IdEnd(txt, advance(pos))
    ELSE pos

_id(txt, pos) ==
    LET end == IdEnd(txt, pos)
    IN  [tok |-> Token(ID, SubSeq(txt, pos + 1, end)), pos |-> end,
         raised |-> NoError]

\* SingleCharType with '/' lexed as DIV.
SingleCharTypeDiv(c) ==
    CASE c = "=" -> ASSIGN
      [] c = ";" -> SEMI
      [] c = "+" -> PLUS
      [] c = "-" -> MINUS
      [] c = "*" -> MUL
      [] c = "/" -> DIV
      [] c = "(" -> OPEN_BRACE
      [] c = ")" -> CLOSE_BRACE
      [] OTHER -> "none"

\* One-character tokens, in the order the source tests them.
SingleCharType(c) ==
    CASE c = "=" -> ASSIGN
      [] c = ";" -> SEMI
      [] c = "+" -> PLUS
      [] c = "-" -> MINUS
      [] c = "*" -> MUL
      [] c = "(" -> OPEN_BRACE
      [] c = ")" -> CLOSE_BRACE
      [] OTHER -> "none"

\* get_next_token(): the token returned, the cursor afterwards, and the
\* exception raised instead ("none": a token was returned).
RECURSIVE get_next_token(_, _)
get_next_token(txt, pos) ==
    LET c == current_char(txt, pos)
    IN  IF c = NoneChar
        THEN [tok |-> Token(EOF, "None"), pos |-> pos, raised |-> NoError]
        ELSE IF isspace(c)
        THEN get_next_token(txt, skip_whitespace(txt, pos))
        ELSE IF isalpha(c)
        THEN _id(txt, pos)
        ELSE IF isdigit(c)
        THEN LET r == integer(txt, pos)
             IN  [tok |-> Token(INTEGER, r.value), pos |-> r.pos,
                  raised |-> r.raised]
        ELSE IF SingleCharType(c) # "none"
        THEN [tok |-> Token(SingleCharType(c), c), pos |-> advance(pos),
              raised |-> NoError]
        ELSE [tok |-> Token(EOF, "None"), pos |-> pos, raised |-> LexError]

-----------------------------------------------------------------------------
(* AST nodes *)

NoNode == [kind |-> "none"]
Binary(left, op, right) ==
    [kind |-> "Binary", left |-> left, op |-> op, right |-> right]
Numeric(token) == [kind |-> "Numeric", token |-> token, value |-> token.value]
Unary(op, expr_) == [kind |-> "Unary", op |-> op, expr |-> expr_]
Assign(left, op, right, semi) ==
    [kind |-> "Assign", left |-> left, op |-> op, right |-> right,
     semi |-> semi]
Variable(token) == [kind |-> "Variable", token |-> token, value |-> token.value]

-----------------------------------------------------------------------------
(* Parser.  A parser state is the lexer's cursor, the current token, the   *)
(* exception raised so far and the node the last method returned; a method *)
(* entered after an exception does nothing, which is how the exception     *)
(* leaves every caller.                                                    *)

\* What a method returns: the state s with `node` as the node returned,
\* or s as it is when an exception is on its way out.
Return(s, node) ==
    IF s.raised # NoError THEN s ELSE [s EXCEPT !.node = node]

\* The parser state once the lexer has answered r to get_next_token().
Fetched(p, r) ==
    IF r.raised = NoError
    THEN [p EXCEPT !.pos = r.pos, !.tok = r.tok]
    ELSE [p EXCEPT !.pos = r.pos, !.raised = r.raised]

\* Parser.__init__ on Lexer(txt): the first token is fetched at once.
Parser(txt) ==
    Fetched([pos |-> 0, tok |-> Token(EOF, "None"), raised |-> NoError,
             node |-> NoNode],
            get_next_token(txt, 0))

consume(txt, p, token_type) ==
    IF p.raised # NoError THEN p
    ELSE IF p.tok.type = token_type
    THEN Fetched(p, get_next_token(txt, p.pos))
    ELSE [p EXCEPT !.raised = SyntaxError]

variable(txt, p) == Return(consume(txt, p, ID), Variable(p.tok))

RECURSIVE expr(_, _)
RECURSIVE expr_loop(_, _)
RECURSIVE term(_, _)
RECURSIVE term_loop(_, _)
RECURSIVE factor(_, _)

\* factor() from consume(CLOSE_BRACE) on; r is what expr() left.
factor_close(txt, r) == Return(consume(txt, r, CLOSE_BRACE), r.node)

\* factor() once the operand r of a unary operator is parsed.
factor_unary(token, r) == Return(r, Unary(token, r.node))

factor(txt, p) ==
    IF p.raised # NoError THEN p
    ELSE IF p.tok.type = PLUS
    THEN factor_unary(p.tok, factor(txt, consume(txt, p, PLUS)))
    ELSE IF p.tok.type = MINUS
    THEN factor_unary(p.tok, factor(txt, consume(txt, p, MINUS)))
    ELSE IF p.tok.type = INTEGER
    THEN Return(consume(txt, p, INTEGER), Numeric(p.tok))
    ELSE IF p.tok.type = OPEN_BRACE
    THEN factor_close(txt, expr(txt, consume(txt, p, OPEN_BRACE)))
    ELSE variable(txt, p)

\* Binary(left=node, op=token, right=...) once the right operand s is parsed.
binary_node(left, token, s) == Return(s, Binary(left, token, s.node))

\* The while loop of term(); r.node is the node built so far.
term_loop(txt, r) ==
    IF r.raised # NoError THEN r
    ELSE IF r.tok.type \in InMUL
    THEN term_loop(txt,
             binary_node(r.node, r.tok,
                 factor(txt, IF r.tok.type = MUL THEN consume(txt, r, MUL)
                             ELSE r)))
    ELSE r

term(txt, p) == term_loop(txt, factor(txt, p))

\* expr_loop taking a whole expr() as the right operand: right-associative.
expr_loop_right(txt, r) ==
    IF r.raised # NoError THEN r
    ELSE IF r.tok.type \in {PLUS, MINUS}
    THEN binary_node(r.node, r.tok, expr(txt, consume(txt, r, r.tok.type)))
    ELSE r

\* The while loop of expr(); r.node is the node built so far.
expr_loop(txt, r) ==
    IF r.raised # NoError THEN r
    ELSE IF r.tok.type \in {PLUS, MINUS}
    THEN expr_loop(txt,
             binary_node(r.node, r.tok,
                 term(txt, IF r.tok.type = PLUS THEN consume(txt, r, PLUS)
                           ELSE IF r.tok.type = MINUS
                           THEN consume(txt, r, MINUS)
                           ELSE r)))
    ELSE r

expr(txt, p) == expr_loop(txt, term(txt, p))

\* assignment_statement() from consume(SEMI) on; l is what variable() left
\* (its current token is the '=' kept as `token`), r what expr() left (its
\* current token is kept as `semi`).
assignment_semi(txt, l, r) ==
    Return(consume(txt, r, SEMI), Assign(l.node, l.tok, r.node, r.tok))

\* assignment_statement() from consume(ASSIGN) on.
assignment_rest(txt, l) ==
    assignment_semi(txt, l, expr(txt, consume(txt, l, ASSIGN)))

assignment_statement(txt, p) == assignment_rest(txt, variable(txt, p))

\* The guard of the while loop of execute(): self.current_token.type in ASSIGN
execute_guard(r) == r.tok.type \in InASSIGN

RECURSIVE execute_loop(_, _)

\* execute_loop consuming the ASSIGN it has just seen.
execute_loop_chain(txt, r) ==
    IF r.raised # NoError THEN r
    ELSE IF execute_guard(r)
    THEN execute_loop(txt,
             binary_node(r.node, r.tok,
                 assignment_statement(txt, consume(txt, r, ASSIGN))))
    ELSE r

\* The while loop of execute(); r.node is the node built so far.
execute_loop(txt, r) ==
    IF r.raised # NoError THEN r
    ELSE IF execute_guard(r)
    THEN execute_loop(txt,
             binary_node(r.node, r.tok,
                 assignment_statement(txt,
                     IF r.tok.type = ASSIGN THEN consume(txt, r, DOT)
                     ELSE r)))
    ELSE r

execute(txt, p) == execute_loop(txt, assignment_statement(txt, p))

\* parse_end without the test for the end of input.
parse_end_lax(r) == r

\* parse() after execute() has left r.
parse_end(r) ==
    IF r.raised # NoError THEN r
    ELSE IF r.tok.type # EOF THEN [r EXCEPT !.raised = SyntaxError]
    ELSE r

parse(txt, p) == parse_end(execute(txt, p))

-----------------------------------------------------------------------------
(* The dictionary Interpreter.VARIABLES: a sequence of <<key, value>>      *)
(* entries in insertion order, as a Python dict keeps them.                *)

Keys(d) == {d[i][1] : i \in 1..Len(d)}

\* d.get(k): the value stored under k, None when k is not a key.
dict_get(d, k) ==
    IF \E i \in 1..Len(d) : d[i][1] = k
    THEN d[CHOOSE i \in 1..Len(d) : d[i][1] = k][2]
    ELSE None

\* dict_set with every assignment adding an entry.
dict_set_append(d, k, v) == Append(d, <<k, v>>)

\* d[k] = v: the entry of k is overwritten in place, a new key is appended.
dict_set(d, k, v) ==
    IF \E i \in 1..Len(d) : d[i][1] = k
    THEN [i \in 1..Len(d) |-> IF d[i][1] = k THEN <<k, v>> ELSE d[i]]
    ELSE Append(d, <<k, v>>)

-----------------------------------------------------------------------------
(* Interpreter.  visit(node, d) is the value returned, the exception       *)
(* raised instead, and the dictionary afterwards.                          *)

Returned(v, d) == [value |-> v, raised |-> NoError, variables |-> d]
Raised(e, d) == [value |-> None, raised |-> e, variables |-> d]

\* Python's // on ints: the quotient rounded toward negative infinity.
FloorDiv(a, b) ==
    CHOOSE q \in -(IF a < 0 THEN -a ELSE a)-1..(IF a < 0 THEN -a ELSE a)+1 :
        \E r \in -(IF b < 0 THEN -b ELSE b)..(IF b < 0 THEN -b ELSE b) :
            /\ a = q * b + r
            /\ IF b > 0 THEN 0 <= r /\ r < b ELSE b < r /\ r <= 0

\* left <op> right on two Python values; ints only, or TypeError.
Arith(type, l, r, d) ==
    IF l = None \/ r = None THEN Raised(TypeError, d)
    ELSE IF type = PLUS THEN Returned(PyInt(l.value + r.value), d)
    ELSE IF type = MINUS THEN Returned(PyInt(l.value - r.value), d)
    ELSE IF type = MUL THEN Returned(PyInt(l.value * r.value), d)
    ELSE IF r.value = 0 THEN Raised("ZeroDivisionError", d)
    ELSE Returned(PyInt(FloorDiv(l.value, r.value)), d)

RECURSIVE visit(_, _)

\* visit_Binary once both operands are visited: lv is the left value, r
\* what visiting the right operand gave.
binary_apply(type, lv, r) ==
    IF r.raised # NoError THEN r
    ELSE Arith(type, lv, r.value, r.variables)

\* visit_Binary once the left operand is visited: the right one is next.
binary_right(node, l) ==
    IF l.raised # NoError THEN l
    ELSE binary_apply(node.op.type, l.value, visit(node.right, l.variables))

visit_Binary(node, d) ==
    IF node.op.type \in {PLUS, MINUS, MUL, DIV}
    THEN binary_right(node, visit(node.left, d))
    ELSE Returned(None, d)

visit_Numeric(node, d) == Returned(PyInt(node.value), d)

\* visit_Unary once the operand is visited.
unary_apply(type, e) ==
    IF e.raised # NoError THEN e
    ELSE IF e.value = None THEN Raised(TypeError, e.variables)
    ELSE IF type = PLUS THEN e
    ELSE Returned(PyInt(-e.value.value), e.variables)

visit_Unary(node, d) ==
    IF node.op.type \in {PLUS, MINUS}
    THEN unary_apply(node.op.type, visit(node.expr, d))
    ELSE Returned(None, d)

\* assign_store binding the name whether or not the right-hand side raised.
assign_store_eager(var_name, r) ==
    [r EXCEPT !.variables = dict_set(r.variables, var_name, r.value)]

\* assign_store returning the value it stored.
assign_store_returning(var_name, r) ==
    IF r.raised # NoError THEN r
    ELSE Returned(r.value, dict_set(r.variables, var_name, r.value))

\* self.VARIABLES[var_name] = <r>: the subscript assignment happens only
\* if visiting the right-hand side returned.  visit_Assign has no return
\* statement, so it returns None.
assign_store(var_name, r) ==
    IF r.raised # NoError THEN r
    ELSE Returned(None, dict_set(r.variables, var_name, r.value))

visit_Assign(node, d) == assign_store(node.left.value, visit(node.right, d))

\* variable_lookup testing `if not val` in place of `if val is None`.
variable_lookup_falsy(val, d) ==
    IF val = None \/ val = PyInt(0) THEN Raised(NameError, d)
    ELSE Returned(val, d)

\* val = self.VARIABLES.get(var_name); NameError if val is None
variable_lookup(val, d) ==
    IF val = None THEN Raised(NameError, d) ELSE Returned(val, d)

visit_Variable(node, d) == variable_lookup(dict_get(d, node.value), d)

visit(node, d) ==
    CASE node.kind = "Binary" -> visit_Binary(node, d)
      [] node.kind = "Numeric" -> visit_Numeric(node, d)
      [] node.kind = "Unary" -> visit_Unary(node, d)
      [] node.kind = "Assign" -> visit_Assign(node, d)
      [] node.kind = "Variable" -> visit_Variable(node, d)
      [] OTHER -> Raised("No visit method", d)

\* What a line came to: the tree parse() returned (NoNode when it raised),
\* the value interpret() returned, the exception raised instead, and the
\* dictionary afterwards.
Outcome(tree_, v) ==
    [tree |-> tree_, value |-> v.value, raised |-> v.raised,
     variables |-> v.variables]

\* interpret() once parse() has left p: `return self.visit(tree)`.  (parse
\* never returns None, so `if tree is None: return ''` is never taken.)
interpret_tree(p, d) ==
    IF p.raised # NoError
    THEN Outcome(NoNode, Raised(p.raised, d))
    ELSE Outcome(p.node, visit(p.node, d))

\* Interpreter(txt).interpret() as main() runs it: the parser is built, the
\* line parsed, the tree visited.
interpret(txt, d) == interpret_tree(parse(txt, Parser(txt)), d)

-----------------------------------------------------------------------------
(* The lines the session is fed. *)

\*   x=1;         binds x
\*   x = 2;       rebinds x; blanks between the tokens
\*   x=11;        a two-digit literal
\*   x=0;         binds x to 0
\*   y=x;         a reference alone
\*   y=2;         binds y before x
\*   x=y;         copies y
\*   y=x+1;       a reference in a sum
\*   x=x+1;       the target on its own right-hand side
\*   y=x*y;       two references
\*   y=z+1;       z is never bound
\*   y=0*z;       z is never bound
\*   x=3+4*2;     precedence
\*   x=(3+4)*2;   parentheses
\*   x=10-3-2;    associativity
\*   x=--5;       nested unary minus
\*   x=-5;        unary minus
\*   x=3+;        a missing operand
\*   x=1          a missing semicolon
\*   x=(1;        an unclosed parenthesis
\*   x=1);        an unopened parenthesis
\*   x=1;=        a stray = after the statement
\*   x=1;y=2;     a second statement
\*   y=2;x        a trailing identifier
\*   x=007;       a literal with leading zeros
\*   x=4/2;       a character the lexer rejects
\*   x=1;/        a rejected character after a complete statement
\*                blanks only
SessionLines == {
    <<"x", "=", "1", ";">>,
    <<"x", " ", "=", " ", "2", ";">>,
    <<"x", "=", "1", "1", ";">>,
    <<"x", "=", "0", ";">>,
    <<"y", "=", "x", ";">>,
    <<"y", "=", "2", ";">>,
    <<"x", "=", "y", ";">>,
    <<"y", "=", "x", "+", "1", ";">>,
    <<"x", "=", "x", "+", "1", ";">>,
    <<"y", "=", "x", "*", "y", ";">>,
    <<"y", "=", "z", "+", "1", ";">>,
    <<"y", "=", "0", "*", "z", ";">>,
    <<"x", "=", "3", "+", "4", "*", "2", ";">>,
    <<"x", "=", "(", "3", "+", "4", ")", "*", "2", ";">>,
    <<"x", "=", "1", "0", "-", "3", "-", "2", ";">>,
    <<"x", "=", "-", "-", "5", ";">>,
    <<"x", "=", "-", "5", ";">>,
    <<"x", "=", "3", "+", ";">>,
    <<"x", "=", "1">>,
    <<"x", "=", "(", "1", ";">>,
    <<"x", "=", "1", ")", ";">>,
    <<"x", "=", "1", ";", "=">>,
    <<"x", "=", "1", ";", "y", "=", "2", ";">>,
    <<"y", "=", "2", ";", "x">>,
    <<"x", "=", "0", "0", "7", ";">>,
    <<"x", "=", "4", "/", "2", ";">>,
    <<"x", "=", "1", ";", "/">>,
    <<" ">>
}

\* Every value a dictionary holds lies within -MaxVal..MaxVal.
InRange(d) ==
    \A i \in 1..Len(d) :
        d[i][2] # None => d[i][2].value \in (-MaxVal)..MaxVal

-----------------------------------------------------------------------------
(* main(): the read loop.  pc = "input" at the call of input(),            *)
(* "interpret" once a non-empty line is read, "exit" once main returned.   *)

NoResult == [type |-> "not returned"]

Init ==
    /\ pc = "input"
    /\ text = <<>>
    /\ variables = <<>>
    /\ tree = NoNode
    /\ raised = NoError
    /\ result = NoResult
    /\ printed = "nothing"
    /\ lexpos = 0
    /\ tokens = <<>>

\* input() returns a non-empty line.  The session is fed only lines that
\* keep the dictionary's values within the model's range.
ReadLine ==
    /\ pc = "input"
    /\ \E line \in SessionLines :
          /\ InRange(interpret(line, variables).variables)
          /\ text' = line
    /\ pc' = "interpret"
    /\ UNCHANGED <<variables, tree, raised, result, printed, lexpos, tokens>>

\* input() returns the empty line: `if not text: continue`.
ReadEmptyLine ==
    /\ pc = "input"
    /\ text' = <<>>
    /\ UNCHANGED <<pc, variables, tree, raised, result, printed, lexpos,
                   tokens>>

\* input() raises EOFError: the loop is left and main returns.
ReadEOF ==
    /\ pc = "input"
    /\ pc' = "exit"
    /\ UNCHANGED <<text, variables, tree, raised, result, printed, lexpos,
                   tokens>>

\* Interpreter(text).interpret() and what follows it.  When it returns,
\* the dictionary is printed and the loop goes on; when it raises, the
\* `except:` around the whole loop prints "error" and main returns.
InterpretDone(r) ==
    /\ tree' = r.tree
    /\ raised' = r.raised
    /\ variables' = r.variables
    /\ IF r.raised = NoError
       THEN /\ result' = r.value
            /\ printed' = "variables"
            /\ pc' = "input"
       ELSE /\ result' = NoResult
            /\ printed' = "error"
            /\ pc' = "exit"

Interpret ==
    /\ pc = "interpret"
    /\ InterpretDone(interpret(text, variables))
    /\ UNCHANGED <<text, lexpos, tokens>>

Next == ReadLine \/ ReadEmptyLine \/ ReadEOF \/ Interpret

Spec == Init /\ [][Next]_vars

-----------------------------------------------------------------------------
(* One line, from a dictionary a session can have built: the inputs of the *)
(* evaluation checks.  The expressions are  a o1 b o2 c  over three atoms  *)
(* and the three binary operators, with up to MaxSigns minus signs before  *)
(* a and b, written flat, as (a o1 b) o2 c and as a o1 (b o2 c).           *)

Atoms == {<<"2">>, <<"x">>, <<"1", "0">>}
BinaryOps == {"+", "-", "*"}
Signs == UNION {[1..n -> {"-"}] : n \in 0..MaxSigns}
Shapes == {"flat", "left", "right"}

ExprText(s1, a, o1, s2, b, o2, c, shape) ==
    CASE shape = "flat" -> s1 \o a \o <<o1>> \o s2 \o b \o <<o2>> \o c
      [] shape = "left" ->
            <<"(">> \o s1 \o a \o <<o1>> \o s2 \o b \o <<")", o2>> \o c
      [] shape = "right" ->
            s1 \o a \o <<o1, "(">> \o s2 \o b \o <<o2>> \o c \o <<")">>

GeneratedLines ==
    {<<"y", "=">> \o ExprText(s1, a, o1, s2, b, o2, c, shape) \o <<";">> :
        s1 \in Signs, a \in Atoms, o1 \in BinaryOps, s2 \in Signs,
        b \in Atoms, o2 \in BinaryOps, c \in Atoms, shape \in Shapes}

EvalLines == GeneratedLines \cup {
    <<"x", "=", "3", "+", "4", "*", "2", ";">>,
    <<"x", "=", "(", "3", "+", "4", ")", "*", "2", ";">>,
    <<"x", "=", "1", "0", "-", "3", "-", "2", ";">>,
    <<"x", "=", "-", "-", "5", ";">>,
    <<"x", "=", "-", "5", ";">>,
    <<"y", "=", "x", "+", "1", ";">>,
    <<"y", "=", "z", "+", "1", ";">>,
    <<"x", "=", "+", "-", "+", "2", "*", "-", "(", "y", ")", ";">>,
    <<"y", "=", "2", "*", "3", "-", "x", "*", "2", "-", "1", ";">>,
    <<"x", "=", "2", "*", "(", "3", "-", "(", "x", "-", "1", ")", ")", "*", "2", ";">>,
    <<"x", "=", "3", "+", ";">>
}

EvalStores == {
    <<>>,
    << <<<<"x">>, PyInt(3)>> >>,
    << <<<<"y">>, PyInt(-4)>>, <<<<"x">>, PyInt(7)>> >>
}

InitEval ==
    /\ pc = "interpret"
    /\ text \in EvalLines
    /\ variables \in EvalStores
    /\ tree = NoNode
    /\ raised = NoError
    /\ result = NoResult
    /\ printed = "nothing"
    /\ lexpos = 0
    /\ tokens = <<>>

NextEval == Interpret

SpecEval == InitEval /\ [][NextEval]_vars

-----------------------------------------------------------------------------
(* The front end alone: a lexer driven token by token over a text, then    *)
(* Parser(Lexer(text)).parse() on the same text.  The texts are every      *)
(* string of up to MaxLexLen characters of LexChars, every  x=  followed   *)
(* by up to MaxBody characters of BodyChars, and the texts of FrontLines.  *)

LexChars == {"x", "_", "0", "7", " ", "/", "+", ";"}
BodyChars == {"x", "7", "+", "*", "(", ")", ";", "="}

\*   x=7;=x=7;    a second statement after a stray =
\*   x=7;x=7;     a second statement
\*   x=(7+7)*7;   a full expression
\*   x = 3 +;     a missing operand
\*   x=4/2;       a division sign
\*   x_1=70;      an underscore in a name
\*   10 007       a literal, then one with leading zeros
\*   x=-(x*7);    a sign before a parenthesis
FrontLines == {
    <<"x", "=", "7", ";", "=", "x", "=", "7", ";">>,
    <<"x", "=", "7", ";", "x", "=", "7", ";">>,
    <<"x", "=", "(", "7", "+", "7", ")", "*", "7", ";">>,
    <<"x", " ", "=", " ", "3", " ", "+", ";">>,
    <<"x", "=", "4", "/", "2", ";">>,
    <<"x", "_", "1", "=", "7", "0", ";">>,
    <<"1", "0", " ", "0", "0", "7">>,
    <<"x", "=", "-", "(", "x", "*", "7", ")", ";">>
}

FrontTexts ==
    UNION {[1..n -> LexChars] : n \in 1..MaxLexLen}
    \cup {<<"x", "=">> \o b :
            b \in UNION {[1..n -> BodyChars] : n \in 1..MaxBody}}
    \cup FrontLines

InitFront ==
    /\ pc = "lex"
    /\ text \in FrontTexts
    /\ variables = <<>>
    /\ tree = NoNode
    /\ raised = NoError
    /\ result = NoResult
    /\ printed = "nothing"
    /\ lexpos = 0
    /\ tokens = <<>>

\* The lexer has answered r to get_next_token(): a token is appended, or
\* the exception ends the lexing.
LexTokenDone(r) ==
    /\ lexpos' = r.pos
    /\ raised' = r.raised
    /\ IF r.raised = NoError
       THEN /\ tokens' = Append(tokens, r.tok)
            /\ pc' = IF r.tok.type = EOF THEN "lexed" ELSE "lex"
       ELSE /\ tokens' = tokens
            /\ pc' = "lexfail"

LexToken ==
    /\ pc = "lex"
    /\ LexTokenDone(get_next_token(text, lexpos))
    /\ UNCHANGED <<text, variables, tree, result, printed>>

ParseDone(p) ==
    /\ raised' = p.raised
    /\ tree' = IF p.raised = NoError THEN p.node ELSE NoNode
    /\ pc' = "parsed"

ParseText ==
    /\ pc \in {"lexed", "lexfail"}
    /\ ParseDone(parse(text, Parser(text)))
    /\ UNCHANGED <<text, variables, result, printed, lexpos, tokens>>

NextFront == LexToken \/ ParseText

SpecFront == InitFront /\ [][NextFront]_vars

-----------------------------------------------------------------------------
(* Reference definitions the properties are stated with.  None of them     *)
(* uses the parser or the interpreter.                                     *)

\* The tokens of a text that lexes, up to the end of input.
RECURSIVE TokensFrom(_, _)
TokensFrom(txt, pos) ==
    LET r == get_next_token(txt, pos)
    IN  IF r.raised # NoError \/ r.tok.type = EOF THEN <<>>
        ELSE <<r.tok>> \o TokensFrom(txt, r.pos)

LineTokens(txt) == TokensFrom(txt, 0)

\* Of a line  name = expr ;  the name and the tokens of expr.
Target(txt) == LineTokens(txt)[1].value
ExprTokens(txt) == SubSeq(LineTokens(txt), 3, Len(LineTokens(txt)) - 1)

\* The names an expression refers to.
Refs(toks) == {toks[i].value : i \in {j \in 1..Len(toks) : toks[j].type = ID}}

SetMax(S) == CHOOSE i \in S : \A j \in S : j <= i

\* How many parentheses are open before token i.
Depth(toks, i) ==
    Cardinality({j \in 1..(i - 1) : toks[j].type = OPEN_BRACE})
    - Cardinality({j \in 1..(i - 1) : toks[j].type = CLOSE_BRACE})

\* The binary operators of `types` outside every parenthesis: an operator
\* is binary when an operand ends right before it.
TopBinary(toks, types) ==
    {i \in 2..Len(toks) :
        /\ toks[i].type \in types
        /\ toks[i - 1].type \in {INTEGER, ID, CLOSE_BRACE}
        /\ Depth(toks, i) = 0}

\* The value of a well-formed expression whose names are all bound in d:
\* split at the last + or - outside parentheses; if there is none, at the
\* last *; if there is none, a sign applies to what follows it, a
\* parenthesis stands for what it encloses, a literal for its number and a
\* name for the number d binds it to.
RECURSIVE RefEval(_, _)
RefEval(toks, d) ==
    IF TopBinary(toks, {PLUS, MINUS}) # {}
    THEN LET i == SetMax(TopBinary(toks, {PLUS, MINUS}))
             l == RefEval(SubSeq(toks, 1, i - 1), d)
             r == RefEval(SubSeq(toks, i + 1, Len(toks)), d)
         IN  IF toks[i].type = PLUS THEN l + r ELSE l - r
    ELSE IF TopBinary(toks, {MUL}) # {}
    THEN LET i == SetMax(TopBinary(toks, {MUL}))
         IN  RefEval(SubSeq(toks, 1, i - 1), d)
             * RefEval(SubSeq(toks, i + 1, Len(toks)), d)
    ELSE IF toks[1].type = MINUS THEN -RefEval(Tail(toks), d)
    ELSE IF toks[1].type = PLUS THEN RefEval(Tail(toks), d)
    ELSE IF toks[1].type = OPEN_BRACE
    THEN RefEval(SubSeq(toks, 2, Len(toks) - 1), d)
    ELSE IF toks[1].type = INTEGER THEN toks[1].value
    ELSE d[CHOOSE i \in 1..Len(d) : d[i][1] = toks[1].value][2].value

\* The grammar, read as a definition of the token sequences it derives.
RECURSIVE IsExpr(_)
RECURSIVE IsTerm(_)
RECURSIVE IsFactor(_)
IsFactor(ts) ==
    /\ Len(ts) >= 1
    /\ \/ ts = <<INTEGER>>
       \/ ts = <<ID>>
       \/ ts[1] \in {PLUS, MINUS} /\ IsFactor(Tail(ts))
       \/ /\ Len(ts) >= 3
          /\ ts[1] = OPEN_BRACE
          /\ ts[Len(ts)] = CLOSE_BRACE
          /\ IsExpr(SubSeq(ts, 2, Len(ts) - 1))
IsTerm(ts) ==
    \/ IsFactor(ts)
    \/ \E i \in 2..(Len(ts) - 1) :
          /\ ts[i] = MUL
          /\ IsTerm(SubSeq(ts, 1, i - 1))
          /\ IsFactor(SubSeq(ts, i + 1, Len(ts)))
IsExpr(ts) ==
    \/ IsTerm(ts)
    \/ \E i \in 2..(Len(ts) - 1) :
          /\ ts[i] \in {PLUS, MINUS}
          /\ IsExpr(SubSeq(ts, 1, i - 1))
          /\ IsTerm(SubSeq(ts, i + 1, Len(ts)))

\* identifier '=' expr ';' and then the end of input, and nothing else.
IsStatement(ts) ==
    /\ Len(ts) >= 5
    /\ ts[1] = ID
    /\ ts[2] = ASSIGN
    /\ IsExpr(SubSeq(ts, 3, Len(ts) - 2))
    /\ ts[Len(ts) - 1] = SEMI
    /\ ts[Len(ts)] = EOF

Types(toks) == [i \in 1..Len(toks) |-> toks[i].type]

\* Whether a tree holds a Binary node whose operator is DIV.
RECURSIVE HasDiv(_)
HasDiv(node) ==
    CASE node.kind = "Binary" ->
            node.op.type = DIV \/ HasDiv(node.left) \/ HasDiv(node.right)
      [] node.kind = "Unary" -> HasDiv(node.expr)
      [] node.kind = "Assign" -> HasDiv(node.right)
      [] OTHER -> FALSE

\* The number a string of decimal digits denotes.
RECURSIVE Pow10(_)
Pow10(n) == IF n = 0 THEN 1 ELSE 10 * Pow10(n - 1)
RECURSIVE Denotes(_)
Denotes(ds) ==
    IF ds = <<>> THEN 0
    ELSE DigitValue(Head(ds)) * Pow10(Len(ds) - 1) + Denotes(Tail(ds))

\* The longest run of digits of txt that starts at the 0-based position pos.
DigitRun(txt, pos) ==
    LET n == SetMax({k \in 0..(Len(txt) - pos) :
                        \A i \in 1..k : txt[pos + i] \in DigitChars})
    IN  SubSeq(txt, pos + 1, pos + n)

Names == {<<"x">>, <<"y">>, <<"z">>}

-----------------------------------------------------------------------------
(* Properties of the session (Spec). *)

\* One step of the program, as C1 describes it.
C1_Step ==
    /\ (pc = "interpret" /\ raised' = NoError) =>
          LET name == Target(text)
              v == PyInt(RefEval(ExprTokens(text), variables))
              kept == IF name \in Keys(variables) THEN Len(variables)
                      ELSE Len(variables) + 1
          IN  /\ Len(variables') = kept
              /\ Cardinality({i \in 1..kept : variables'[i][1] = name}) = 1
              /\ \A i \in 1..kept :
                    IF variables'[i][1] = name THEN variables'[i][2] = v
                    ELSE i <= Len(variables) /\ variables'[i] = variables[i]
              /\ \A i \in 1..Len(variables) :
                    variables'[i][1] = variables[i][1]
    /\ pc # "interpret" => variables' = variables

\* C1: a well-formed line  name = expr;  whose expr has the value v under
\* the store S leaves the store equal to S with name mapped to v: name has
\* exactly one entry and it holds v, every other entry is as it was, in the
\* same order, and no entry is removed; and no step other than the
\* interpretation of a line changes the store, so a later reference to name
\* finds v until name is assigned again.
C1_AssignmentUpdatesStore == [][C1_Step]_vars

\* C1 witness: x = 1; y = x + 1; x = 2; has overwritten x in place.
C1_Witness ==
    /\ pc = "input"
    /\ raised = NoError
    /\ text = <<"x", " ", "=", " ", "2", ";">>
    /\ variables = << <<<<"x">>, PyInt(2)>>, <<<<"y">>, PyInt(2)>> >>

\* C2: after a line has failed the shell has reported the failure and is
\* still in its read loop.
C2_KeepsReadingAfterFailure ==
    raised # NoError => printed = "error" /\ pc \in {"input", "interpret"}

\* C3: a line whose processing raises leaves the store as it was.
C3_FailedLineKeepsStore ==
    [][(pc = "interpret" /\ raised' # NoError) => variables' = variables]_vars

\* C3 witness: x = x + 1; with x unbound and y bound has failed.
C3_Witness ==
    /\ pc = "exit"
    /\ raised = NameError
    /\ text = <<"x", "=", "x", "+", "1", ";">>
    /\ variables = << <<<<"y">>, PyInt(2)>> >>

\* One step of the program, as C4 describes it.
C4_Step ==
    pc = "interpret" =>
       /\ \A n \in Names :
             LET r == visit_Variable(Variable(Token(ID, n)), variables)
             IN  IF n \in Keys(variables)
                 THEN /\ r.raised = NoError
                      /\ r.value.type = "int"
                      /\ \E i \in 1..Len(variables) :
                            variables[i] = <<n, r.value>>
                 ELSE r.raised = NameError
       /\ tree' # NoNode =>
             /\ raised' \in {NoError, NameError}
             /\ raised' = NameError <=>
                   ~(Refs(ExprTokens(text)) \subseteq Keys(variables))

\* C4: a reference to a name raises NameError exactly when the name is
\* absent from the store, and yields the stored integer when it is present;
\* so a line that parses raises NameError exactly when its right-hand side
\* refers to an absent name, and raises nothing else.
C4_NameErrorIffAbsent == [][C4_Step]_vars

\* C4 witness: y = x + 1; after x = 11; has bound y to 12.
C4_Witness ==
    /\ pc = "input"
    /\ raised = NoError
    /\ text = <<"y", "=", "x", "+", "1", ";">>
    /\ variables = << <<<<"x">>, PyInt(11)>>, <<<<"y">>, PyInt(12)>> >>

-----------------------------------------------------------------------------
(* Properties of one line (SpecEval). *)

\* C6: the value a well-formed line stores is the value of its expression
\* under the reference evaluator: * before binary + and -, equal precedence
\* from the left, signs before *, parentheses first.
C6_StoredValueIsReferenceValue ==
    [][(pc = "interpret" /\ raised' = NoError) =>
          dict_get(variables', Target(text))
              = PyInt(RefEval(ExprTokens(text), variables))]_vars

\* C6 witness: x = 10 - 3 - 2; has bound x to 5.
C6_Witness ==
    /\ pc = "input"
    /\ text = <<"x", "=", "1", "0", "-", "3", "-", "2", ";">>
    /\ dict_get(variables, <<"x">>) = PyInt(5)

-----------------------------------------------------------------------------
(* Properties of the front end (SpecFront). *)

\* The lexer has returned every token of the text, the end of input last.
Lexed == Len(tokens) >= 1 /\ tokens[Len(tokens)].type = EOF

\* C7: parse succeeds exactly on the token sequences that are one
\* assignment statement followed by the end of input, and then returns the
\* Assign node of that statement; on every other token sequence it fails
\* with a syntax error; and it never succeeds on a text that does not lex.
C7_ParseAcceptsOneStatement ==
    pc = "parsed" =>
       IF Lexed
       THEN /\ raised = NoError <=> IsStatement(Types(tokens))
            /\ raised # NoError => raised = SyntaxError
            /\ raised = NoError =>
                  /\ tree.kind = "Assign"
                  /\ tree.left.kind = "Variable"
                  /\ tree.left.value = tokens[1].value
       ELSE raised # NoError

\* C7 witness: x=7;= has lexed and parse has failed with a syntax error.
C7_Witness ==
    /\ pc = "parsed"
    /\ Lexed
    /\ text = <<"x", "=", "7", ";", "=">>
    /\ raised = SyntaxError

\* The 0-based position of the first character at or after pos that is not
\* a blank; the length of the text when there is none.
FirstNonBlank(txt, pos) ==
    CHOOSE k \in pos..Len(txt) :
        /\ k = Len(txt) \/ txt[k + 1] \notin SpaceChars
        /\ \A j \in pos..(k - 1) : txt[j + 1] \in SpaceChars

\* One step of the program, as C8 describes it.
C8_Step ==
    LET start == FirstNonBlank(text, lexpos)
        run == DigitRun(text, start)
    IN  (pc = "lex" /\ start < Len(text) /\ text[start + 1] \in DigitChars) =>
           IF run = <<"0">> \/ run[1] \in {"1", "2", "3", "4", "5", "6", "7",
                                            "8", "9"}
           THEN /\ tokens' = Append(tokens, Token(INTEGER, Denotes(run)))
                /\ lexpos' = start + Len(run)
                /\ raised' = NoError
                /\ pc' = "lex"
           ELSE /\ tokens' = tokens
                /\ raised' = LexError
                /\ pc' = "lexfail"

\* C8: when the next character to lex is a digit, the lexer takes the whole
\* run of digits; if the run is "0" or starts with 1-9 it returns one
\* INTEGER token holding the number the run denotes, and otherwise it
\* raises the lexical error and returns no token.
C8_IntegerLiterals == [][C8_Step]_vars

\* C8 witness: of  10 007  the lexer has returned INTEGER 10 and then
\* failed on 007.
C8_Witness ==
    /\ pc = "lexfail"
    /\ text = <<"1", "0", " ", "0", "0", "7">>
    /\ tokens = <<Token(INTEGER, 10)>>
    /\ raised = LexError

\* C9: the lexer never returns a DIV token and its cursor never passes a
\* '/', and no tree parse returns holds a Binary node whose operator is DIV.
C9_NoDivision ==
    /\ \A i \in 1..Len(tokens) : tokens[i].type # DIV
    /\ \A i \in 1..Len(text) : text[i] = "/" => lexpos < i
    /\ pc = "parsed" => ~HasDiv(tree)

\* C9 witness: the lexer has stopped at the '/' of x=4/2; with a lexical
\* error, and so has parse.
C9_Witness ==
    /\ pc = "parsed"
    /\ text = <<"x", "=", "4", "/", "2", ";">>
    /\ lexpos = 3
    /\ Len(tokens) = 3
    /\ raised = LexError

\* C10 as claimed: whenever assignment_statement has returned, the guard
\* of the loop of execute is false.
C10_LoopNeverEntered ==
    pc = "parsed" =>
       LET r == assignment_statement(text, Parser(text))
       IN  r.raised = NoError => ~execute_guard(r)

\* C10 as amended: the guard is true exactly when the token after the
\* statement is ASSIGN, the body then fails with a syntax error, and so
\* whenever execute returns it returns what assignment_statement returned:
\* a single Assign node, never a chain.
C10_LoopNeverCompletes ==
    pc = "parsed" =>
       LET r == assignment_statement(text, Parser(text))
           e == execute(text, Parser(text))
       IN  /\ r.raised = NoError =>
                /\ execute_guard(r) <=> r.tok.type = ASSIGN
                /\ execute_guard(r) => e.raised = SyntaxError
                /\ ~execute_guard(r) => e = r
           /\ e.raised = NoError => e.node.kind = "Assign"

\* C10 witness: after x=7; of x=7;=x=7; the guard is true and parse has
\* failed with a syntax error.
C10_Witness ==
    /\ pc = "parsed"
    /\ text = <<"x", "=", "7", ";", "=", "x", "=", "7", ";">>
    /\ execute_guard(assignment_statement(text, Parser(text)))
    /\ raised = SyntaxError

=============================================================================
